---- MODULE Spec2Model ----
(***************************************************************************)
(* Model of the zOSINFO web page scripts: script-public.js (read-only      *)
(* table with per-column filtering) and script-private.js (the editor:     *)
(* the same table plus password-protected editing, add/delete of rows and  *)
(* export of the data as a download).                                      *)
(*                                                                         *)
(* JavaScript strings are modelled as sequences of one-character strings,  *)
(* so that startsWith, includes, split, trim, toLowerCase and parseInt are *)
(* computed character by character as the engine computes them.  Array     *)
(* indices keep their JavaScript (0-based) values; element i of an array   *)
(* is position i+1 of the TLA+ sequence.                                   *)
(***************************************************************************)
EXTENDS Integers, Sequences, FiniteSets, TLC

(***************************************************************************)
(* Bounds of the model                                                     *)
(***************************************************************************)
\* longest value handed to formatCellContent, counted in tokens of FormatTokens
MaxTokens == 3
\* most rows in a fetched JSON document
MaxLoadRows == 2
\* most rows the Dataset may hold (guards the add-rows loop)
MaxData == 2
\* most fetches in flight at the same time
MaxPending == 2
\* most times a user types into a cell between two page loads
MaxTyped == 1

(***************************************************************************)
(* JavaScript string primitives                                            *)
(***************************************************************************)
NL == "\n"
CR == "\r"

\* String.prototype.toLowerCase on one character (ASCII letters)
UpperToLower ==
    [A |-> "a", B |-> "b", C |-> "c", D |-> "d", E |-> "e", F |-> "f", G |-> "g",
     H |-> "h", I |-> "i", J |-> "j", K |-> "k", L |-> "l", M |-> "m", N |-> "n",
     O |-> "o", P |-> "p", Q |-> "q", R |-> "r", S |-> "s", T |-> "t", U |-> "u",
     V |-> "v", W |-> "w", X |-> "x", Y |-> "y", Z |-> "z"]

toLowerCase(s) ==
    [i \in 1..Len(s) |-> IF s[i] \in DOMAIN UpperToLower THEN UpperToLower[s[i]] ELSE s[i]]

startsWith(s, p) == Len(s) >= Len(p) /\ SubSeq(s, 1, Len(p)) = p

\* String.prototype.includes: p occurs in s at some position (the empty p always does)
includes(s, p) == \E i \in 1..(Len(s) - Len(p) + 1) : SubSeq(s, i, i + Len(p) - 1) = p

\* the characters String.prototype.trim removes
IsWhiteSpace(c) == c \in {" ", "\t", NL, CR, "\f"}

RECURSIVE trimStart(_)
trimStart(s) == IF s # <<>> /\ IsWhiteSpace(Head(s)) THEN trimStart(Tail(s)) ELSE s

RECURSIVE trimEnd(_)
trimEnd(s) ==
    IF s # <<>> /\ IsWhiteSpace(s[Len(s)]) THEN trimEnd(SubSeq(s, 1, Len(s) - 1)) ELSE s

trim(s) == trimEnd(trimStart(s))

IsLineBreak(c) == c \in {NL, CR}

\* value.split(/[\r\n]+/): every maximal run of \r and \n is one separator
RECURSIVE splitLines(_)
splitLines(s) ==
    IF \A i \in 1..Len(s) : ~IsLineBreak(s[i])
    THEN << s >>
    ELSE LET i == CHOOSE k \in 1..Len(s) :
                      IsLineBreak(s[k]) /\ \A m \in 1..(k - 1) : ~IsLineBreak(s[m])
             j == CHOOSE k \in (i + 1)..(Len(s) + 1) :
                      /\ k = Len(s) + 1 \/ ~IsLineBreak(s[k])
                      /\ \A m \in i..(k - 1) : IsLineBreak(s[m])
         IN  << SubSeq(s, 1, i - 1) >> \o splitLines(SubSeq(s, j, Len(s)))

\* Array.prototype.join('\n')
RECURSIVE joinLines(_)
joinLines(lines) ==
    IF lines = <<>> THEN <<>>
    ELSE IF Len(lines) = 1 THEN lines[1]
    ELSE lines[1] \o << NL >> \o joinLines(Tail(lines))

(***************************************************************************)
(* Literals of the scripts                                                 *)
(***************************************************************************)
HttpPrefix == << "h", "t", "t", "p", ":", "/", "/" >>
HttpsPrefix == << "h", "t", "t", "p", "s", ":", "/", "/" >>
SlashSlash == << "/", "/" >>
CommentPrefix == << "/", "/", " " >>
\* String(undefined)
Undefined == << "u", "n", "d", "e", "f", "i", "n", "e", "d" >>

(***************************************************************************)
(* formatCellContent: the cell classifier.  The result is the category of  *)
(* the element put into the cell (a: link, pre: multi-line block, text:    *)
(* plain text node) and the cell's textContent.                            *)
(***************************************************************************)
IsCommentLine(line) == startsWith(trim(line), CommentPrefix)

StripCommentLines(value) ==
    LET lines == splitLines(value)
        kept == SelectSeq(lines, LAMBDA line : ~IsCommentLine(line))
    IN  joinLines(kept)

\* the bug of testing for multi-line content first
formatCellContentJclFirst(value) ==
    IF includes(value, SlashSlash) /\ includes(value, << NL >>)
    THEN [cat |-> "pre", text |-> StripCommentLines(value)]
    ELSE IF startsWith(value, HttpPrefix) \/ startsWith(value, HttpsPrefix)
    THEN [cat |-> "link", text |-> value]
    ELSE [cat |-> "plain", text |-> value]

formatCellContent(value) ==
    IF startsWith(value, HttpPrefix) \/ startsWith(value, HttpsPrefix)
    THEN [cat |-> "link", text |-> value]
    ELSE IF includes(value, SlashSlash) /\ includes(value, << NL >>)
    THEN [cat |-> "pre", text |-> StripCommentLines(value)]
    ELSE [cat |-> "plain", text |-> value]

(***************************************************************************)
(* State                                                                   *)
(***************************************************************************)
VARIABLES
    variant,             \* which script the page runs: "public" or "private"
    pageType,            \* key of pageConfigs in use; config is pageConfigs[pageType]
    initialized,         \* currentData and columnHeaders have been assigned
    currentData,         \* the authoritative Dataset: sequence of rows
    columnHeaders,       \* the configured column names, in display order
    isEditMode,          \* private script: the editor's mode flag
    selectedRowIndex,    \* private script: index of the row selected for deletion, or -1
    filterInputs,        \* values of the .filter-input elements, in column order
    tableHead,           \* the column titles shown in the table head
    tableRows,           \* the <tr> elements of the table body, in document order
    pending,             \* fetches in flight, oldest first: the data file each one asked for
    lastEvent,           \* the handler that ran last and what it showed the user
    credentialSinceExit, \* history: the correct password was entered and Escape was not pressed since
    loadedFile,          \* history: the data file whose fetch result currentData was set from
    typedAt,             \* history: << >>, or the cell typed into in this edit session and its text
    onlyRowTrail,        \* history: F7 removed the only row, and rows were added next
    typedCount,          \* how often a cell was typed into since the last page load
    sessionOpen,         \* history: the correct password was entered and no exit or page load completed since
    fmtValue,            \* the value last handed to formatCellContent
    fmtResult            \* what formatCellContent made of it

vars == << variant, pageType, initialized, currentData, columnHeaders, isEditMode,
           selectedRowIndex, filterInputs, tableHead, tableRows, pending, lastEvent,
           credentialSinceExit, sessionOpen, typedCount, loadedFile, typedAt, onlyRowTrail,
           fmtValue, fmtResult >>

pageVars == << variant, pageType, initialized, currentData, columnHeaders, isEditMode,
               selectedRowIndex, filterInputs, tableHead, tableRows, pending,
               lastEvent, credentialSinceExit, sessionOpen, typedCount, loadedFile,
               typedAt, onlyRowTrail >>

fmtVars == << fmtValue, fmtResult >>

(***************************************************************************)
(* Configuration                                                           *)
(***************************************************************************)
pageConfigs ==
    [home |-> [htmlFile |-> "zosinfo.html",
               dataFile |-> "zosinfo-data.json",
               headers |-> << "Vendor", "component/product", "type", "info" >>],
     linkedin |-> [htmlFile |-> "linkedin.html",
                   dataFile |-> "linkedin-data.json",
                   headers |-> << "Sno", "topic", "link" >>]]

PageTypes == DOMAIN pageConfigs

EDIT_PASSWORD == << "p", "a", "s", "s", "w", "o", "r", "d", "1", "2", "3" >>

Range(f) == { f[x] : x \in DOMAIN f }

(***************************************************************************)
(* Inputs: the JSON documents a fetch may return, the strings a user may   *)
(* type into a filter box, a prompt or a cell                              *)
(***************************************************************************)
sIBM == << "I", "B", "M" >>
sIbm2 == << "i", "b", "m", "2" >>
sLink == << "h", "t", "t", "p", "s", ":", "/", "/", "x" >>
\* three lines, the second one a comment line, written with \r\n line ends
sJcl == << "/", "/", "A", CR, NL, " ", "/", "/", " ", "c", CR, NL, "x" >>

\* rows of zosinfo-data.json: a complete row whose info is a link, a row
\* with a multi-line cell that misses two configured keys and has another
\* key, and a row whose only value is a blank
HomeRows ==
    { [k \in {"Vendor", "component/product", "type", "info"} |->
          CASE k = "Vendor" -> sIBM
            [] k = "component/product" -> << "z" >>
            [] k = "type" -> << "o", "s" >>
            [] OTHER -> sLink],
      [k \in {"Vendor", "info", "note"} |->
          CASE k = "Vendor" -> sIbm2
            [] k = "info" -> sJcl
            [] OTHER -> << "n" >>],
      [k \in {"Vendor"} |-> << " " >>] }

\* rows of linkedin-data.json: a row that misses Sno, and a complete row
\* with a multi-line cell
LinkedinRows ==
    { [k \in {"topic", "link"} |-> IF k = "topic" THEN sIBM ELSE sLink],
      [k \in {"Sno", "topic", "link"} |->
          CASE k = "Sno" -> << "1" >>
            [] k = "topic" -> sIbm2
            [] OTHER -> sJcl] }

RowsOfFile(dataFile) ==
    IF dataFile = pageConfigs.home.dataFile THEN HomeRows ELSE LinkedinRows

SeqsUpTo(S, n) == UNION { [1..k -> S] : k \in 0..n }

\* the JSON arrays a data file may hold
Datasets(dataFile) == SeqsUpTo(RowsOfFile(dataFile), MaxLoadRows)

\* how a fetch of a data file ends: fetch rejects, the status is not ok,
\* response.json() rejects, or the document parses to an array of rows
FetchOutcomes(dataFile) ==
    { [kind |-> k, data |-> <<>>] : k \in {"networkError", "badStatus", "parseError"} }
        \cup { [kind |-> "json", data |-> d] : d \in Datasets(dataFile) }

\* what a user types into the filter box of a column
FilterPool(header) ==
    IF header \in {"Vendor", "topic"}
    THEN { <<>>, << "I", "b" >>, << "I", "b", "m", "2" >> }
    ELSE IF header \in {"component/product", "Sno"}
    THEN { <<>>, << "d" >> }
    ELSE { <<>> }

\* prompt() results: << >> is null (the user cancelled), << s >> is the text s
PasswordPrompts ==
    { <<>>, << EDIT_PASSWORD >>, << <<>> >>, << << "P", "a", "s", "s" >> >> }

RowCountPrompts ==
    { <<>>, << << "1" >> >>, << << "2" >> >>, << << "0" >> >>, << << "-", "1" >> >>,
      << << "a", "b", "c" >> >>, << <<>> >>, << << "2", "x" >> >>, << << " ", "1" >> >> }

\* what a user types into an editable cell
TextPool == { << " ", "q", " " >> }

\* the values handed to formatCellContent in FormatSpec
FormatTokens ==
    { HttpPrefix, HttpsPrefix, SlashSlash, CommentPrefix, << NL >>, << CR, NL >>,
      << "a" >>, << " " >> }

RECURSIVE Flatten(_)
Flatten(ss) == IF ss = <<>> THEN <<>> ELSE Head(ss) \o Flatten(Tail(ss))

FormatInputs == { Flatten(ts) : ts \in SeqsUpTo(FormatTokens, MaxTokens) }

(***************************************************************************)
(* Rows and cells                                                          *)
(***************************************************************************)
\* rowData[header] || '': a missing key and the empty string both give ''
cellValueOf(rowData, header) ==
    IF header \in DOMAIN rowData /\ rowData[header] # <<>> THEN rowData[header] ELSE <<>>

\* String(row[header]): a missing key gives the text "undefined"
stringOf(row, header) == IF header \in DOMAIN row THEN row[header] ELSE Undefined

\* the indices 0 .. n-1 of an array of length n, in order
Indices(data) == [k \in 1..Len(data) |-> k - 1]

allEmptyInputs(headers) == [c \in 1..Len(headers) |-> <<>>]

(***************************************************************************)
(* Table rendering and filtering, private script.  An array of row objects *)
(* handed to renderTableBody is given as the sequence of the rows' indices *)
(* in currentData: the objects of currentData are pairwise distinct (each  *)
(* comes from JSON parsing, from the add-rows loop or from the             *)
(* reconciliation), so currentData.indexOf(rowData) is the row's position  *)
(* and is never -1.                                                        *)
(***************************************************************************)
\* the bug of showing the raw text in View mode too: no formatCellContent
renderTableBodyAlwaysPlain(data, master, headers, editMode) ==
    [k \in 1..Len(data) |->
        [originalIndex |-> data[k],
         cells |-> [c \in 1..Len(headers) |->
                      [cat |-> "plain",
                       text |-> cellValueOf(master[data[k] + 1], headers[c]),
                       editable |-> editMode]]]]

renderTableBody(data, master, headers, editMode) ==
    [k \in 1..Len(data) |->
        LET originalIndex == data[k]
            rowData == master[originalIndex + 1]
        IN  [originalIndex |-> originalIndex,
             cells |->
                 [c \in 1..Len(headers) |->
                     LET cellValue == cellValueOf(rowData, headers[c])
                         shown == formatCellContent(cellValue)
                     IN  IF editMode
                         THEN [cat |-> "plain", text |-> cellValue,
                               editable |-> TRUE]
                         ELSE [cat |-> shown.cat, text |-> shown.text,
                               editable |-> FALSE]]]]

\* the bug of requiring the key: row[header] !== undefined && ...
rowMatchesKeyRequired(row, headers, filterValues) ==
    \A index \in 1..Len(filterValues) :
        /\ headers[index] \in DOMAIN row
        /\ includes(toLowerCase(stringOf(row, headers[index])), filterValues[index])

\* the bug of swapping the operands for a non-empty filter string:
\* filterValue.includes(cellValue)
rowMatchesSwapped(row, headers, filterValues) ==
    \A index \in 1..Len(filterValues) :
        \/ filterValues[index] = <<>>
        \/ includes(filterValues[index], toLowerCase(stringOf(row, headers[index])))

\* the predicate of currentData.filter in filterTable
rowMatches(row, headers, filterValues) ==
    \A index \in 1..Len(filterValues) :
        includes(toLowerCase(stringOf(row, headers[index])), filterValues[index])

filteredData(master, headers, inputs) ==
    LET filterValues == [i \in 1..Len(inputs) |-> toLowerCase(inputs[i])]
    IN  SelectSeq(Indices(master), LAMBDA i : rowMatches(master[i + 1], headers, filterValues))

filterTable(master, headers, inputs, editMode) ==
    renderTableBody(filteredData(master, headers, inputs), master, headers, editMode)

(***************************************************************************)
(* Table rendering and filtering, public script                            *)
(***************************************************************************)
renderTableBodyPublic(data, master, headers) ==
    [k \in 1..Len(data) |->
        LET originalIndex == data[k]
            rowData == master[originalIndex + 1]
        IN  [originalIndex |-> originalIndex,
             cells |->
                 [c \in 1..Len(headers) |->
                     LET shown == formatCellContent(cellValueOf(rowData, headers[c]))
                     IN  [cat |-> shown.cat, text |-> shown.text,
                          editable |-> FALSE]]]]

filterTablePublic(master, headers, inputs) ==
    LET filterValues == [i \in 1..Len(inputs) |-> toLowerCase(inputs[i])]
        matches(row) ==
            \A index \in 1..Len(filterValues) :
                includes(toLowerCase(stringOf(row, headers[index])), filterValues[index])
        filtered == SelectSeq(Indices(master), LAMBDA i : matches(master[i + 1]))
    IN  renderTableBodyPublic(filtered, master, headers)

(***************************************************************************)
(* Data loading                                                            *)
(***************************************************************************)
\* the bug of swallowing the failure without telling the user
loadDataFromFileSilent(outcome) ==
    [data |-> IF outcome.kind = "json" THEN outcome.data ELSE <<>>, alert |-> "none"]

\* loadDataFromFile: every failure is caught, reported with alert() and
\* turned into the empty array
loadDataFromFile(outcome) ==
    IF outcome.kind = "json"
    THEN [data |-> outcome.data, alert |-> "none"]
    ELSE [data |-> <<>>, alert |-> "loadFailed"]

RemoveAt(seq, i) == SubSeq(seq, 1, i - 1) \o SubSeq(seq, i + 1, Len(seq))

\* the handler that ran and what it showed the user: the alert it raised, the
\* error it threw (reported on the console), the file it offered for download
Event(op, alert, error, download) ==
    [op |-> op, alert |-> alert, error |-> error, download |-> download]

(***************************************************************************)
(* Initial state: the DOMContentLoaded listener has run up to its first    *)
(* await; the fetch of the page's data file is in flight.                  *)
(***************************************************************************)
InitPage ==
    /\ variant \in {"public", "private"}
    /\ pageType \in PageTypes
    /\ initialized = FALSE
    /\ currentData = <<>>
    /\ columnHeaders = <<>>
    /\ isEditMode = FALSE
    /\ selectedRowIndex = -1
    /\ filterInputs = <<>>
    /\ tableHead = <<>>
    /\ tableRows = <<>>
    /\ pending = << pageConfigs[pageType].dataFile >>
    /\ lastEvent = Event("DOMContentLoaded", "none", "none", <<>>)
    /\ credentialSinceExit = FALSE
    /\ sessionOpen = FALSE
    /\ typedCount = 0
    /\ loadedFile = ""
    /\ typedAt = <<>>
    /\ onlyRowTrail = "no"

\* no value has been handed to formatCellContent
InitFormat ==
    /\ fmtValue = <<>>
    /\ fmtResult = <<>>

Init == InitPage /\ InitFormat

(***************************************************************************)
(* Public script                                                           *)
(***************************************************************************)
\* lines 56-57 and 218-219: the fetch settles, the state is set, the table is rendered
PublicLoadOf(outcome) ==
    /\ variant = "public"
    /\ pending # <<>>
    /\ outcome \in FetchOutcomes(pending[1])
    /\ LET loaded == loadDataFromFile(outcome)
           headers == pageConfigs[pageType].headers
       IN  /\ currentData' = loaded.data
           /\ columnHeaders' = headers
           /\ initialized' = TRUE
           /\ filterInputs' = allEmptyInputs(headers)
           /\ tableHead' = headers
           /\ tableRows' = renderTableBodyPublic(Indices(loaded.data), loaded.data, headers)
           /\ lastEvent' = Event("load", loaded.alert, "none", <<>>)
    /\ pending' = <<>>
    /\ loadedFile' = pending[1]
    /\ UNCHANGED << variant, pageType, isEditMode, selectedRowIndex,
                    credentialSinceExit, sessionOpen, typedCount, fmtVars >>
    /\ typedAt' = <<>>
    /\ onlyRowTrail' = "no"

PublicLoad == \E outcome \in UNION { FetchOutcomes(f) : f \in Range(pending) } :
                  PublicLoadOf(outcome)

\* keyup in the filter box of column c, whose value is now s
PublicFilterKeyupAt(c, s) ==
    /\ variant = "public"
    /\ c \in 1..Len(filterInputs)
    /\ filterInputs' = [filterInputs EXCEPT ![c] = s]
    /\ tableRows' = filterTablePublic(currentData, columnHeaders, filterInputs')
    /\ lastEvent' = Event("filterTable", "none", "none", <<>>)
    /\ UNCHANGED << variant, pageType, initialized, currentData, columnHeaders, isEditMode,
                    selectedRowIndex, tableHead, pending, credentialSinceExit, sessionOpen,
                    typedCount, loadedFile, typedAt, fmtVars >>
    /\ onlyRowTrail' = "no"

PublicFilterKeyup ==
    \E c \in 1..Len(filterInputs) : \E s \in FilterPool(columnHeaders[c]) :
        PublicFilterKeyupAt(c, s)
(***************************************************************************)
(* Private script: helpers of the handlers                                 *)
(***************************************************************************)
IsDigit(c) == c \in {"0", "1", "2", "3", "4", "5", "6", "7", "8", "9"}

DigitValue(c) ==
    CASE c = "0" -> 0 [] c = "1" -> 1 [] c = "2" -> 2 [] c = "3" -> 3 [] c = "4" -> 4
      [] c = "5" -> 5 [] c = "6" -> 6 [] c = "7" -> 7 [] c = "8" -> 8 [] c = "9" -> 9

RECURSIVE leadingDigits(_)
leadingDigits(s) ==
    IF s # <<>> /\ IsDigit(Head(s)) THEN << Head(s) >> \o leadingDigits(Tail(s)) ELSE <<>>

RECURSIVE decimalValue(_, _)
decimalValue(digits, acc) ==
    IF digits = <<>> THEN acc
    ELSE decimalValue(Tail(digits), 10 * acc + DigitValue(Head(digits)))

\* parseInt(s, 10): leading white space is skipped, a sign is read, then the
\* longest run of digits; what follows the digits is ignored.  << >> is NaN.
parseInt(s) ==
    LET t == trimStart(s)
        signed == t # <<>> /\ Head(t) \in {"+", "-"}
        digits == leadingDigits(IF signed THEN Tail(t) ELSE t)
        magnitude == decimalValue(digits, 0)
    IN  IF digits = <<>> THEN <<>>
        ELSE IF signed /\ Head(t) = "-" THEN << 0 - magnitude >>
        ELSE << magnitude >>

\* the bug of pushing the new object before its keys are set, and never setting them
newRowNoKeys(headers) == [header \in {} |-> <<>>]

\* the new row of the add-rows loop: every configured column, each empty
newRow(headers) == [header \in Range(headers) |-> <<>>]

\* cells.forEach(cell => cell.contentEditable = flag)
setContentEditable(rows, flag) ==
    [r \in 1..Len(rows) |->
        [rows[r] EXCEPT !.cells =
            [c \in 1..Len(rows[r].cells) |-> [rows[r].cells[c] EXCEPT !.editable = flag]]]]

\* handleEscape, lines 261-274: the row read back from a <tr>
newRowDataOf(tr, headers) ==
    [header \in { headers[c] : c \in 1..Len(tr.cells) } |->
        LET cellIndex == CHOOSE c \in 1..Len(tr.cells) : headers[c] = header
        IN  trim(tr.cells[cellIndex].text)]

\* the bug of writing a <tr> back by its place in the table body instead of
\* its tracked index
reconcileByPosition(master, rows, headers) ==
    [k \in 1..Len(master) |->
        IF k <= Len(rows) THEN newRowDataOf(rows[k], headers) ELSE master[k]]

\* handleEscape, lines 277-281: rows with a <tr> are replaced by what the <tr> shows
reconcile(master, rows, headers) ==
    [k \in 1..Len(master) |->
        IF \E r \in 1..Len(rows) : rows[r].originalIndex = k - 1
        THEN LET last == CHOOSE r \in 1..Len(rows) :
                             /\ rows[r].originalIndex = k - 1
                             /\ \A q \in (r + 1)..Len(rows) : rows[q].originalIndex # k - 1
             IN  newRowDataOf(rows[last], headers)
        ELSE master[k]]

isEmptyRow(row, headers) ==
    \A c \in 1..Len(headers) : trim(cellValueOf(row, headers[c])) = <<>>

\* the bug of dropping every row that has an empty cell: some() for every()
pruneRowsWithAnEmptyCell(data, headers) ==
    SelectSeq(data, LAMBDA row :
        ~(\E c \in 1..Len(headers) : trim(cellValueOf(row, headers[c])) = <<>>))

\* handleEscape, lines 282-285
pruneEmptyRows(data, headers) == SelectSeq(data, LAMBDA row : ~isEmptyRow(row, headers))

\* currentData.splice(start, 1)
spliceOne(data, start) ==
    IF start < Len(data) THEN RemoveAt(data, start + 1) ELSE data

(***************************************************************************)
(* The exported document.  A JSON document is given by its structure, an   *)
(* array of objects, and each string by the characters written between the *)
(* quotes; the indentation of JSON.stringify(data, null, 2) is left out.   *)
(***************************************************************************)
\* the bug of writing the characters of a string as they are
jsonEscapeRaw(s) == s

\* JSON.stringify of a string: quote, backslash and the line-break
\* characters are written as escape sequences
RECURSIVE jsonEscape(_)
jsonEscape(s) ==
    IF s = <<>> THEN <<>>
    ELSE (CASE Head(s) = NL -> << "\\", "n" >>
            [] Head(s) = CR -> << "\\", "r" >>
            [] Head(s) = "\"" -> << "\\", "\"" >>
            [] Head(s) = "\\" -> << "\\", "\\" >>
            [] OTHER -> << Head(s) >>) \o jsonEscape(Tail(s))

\* JSON.parse of the characters between the quotes: << t >> is the string t,
\* << >> a SyntaxError (a raw control character, an unknown or unfinished
\* escape sequence)
RECURSIVE jsonUnescape(_)
jsonUnescape(s) ==
    IF s = <<>> THEN << <<>> >>
    ELSE IF Head(s) \in {NL, CR, "\""} THEN <<>>
    ELSE IF Head(s) = "\\"
    THEN IF Len(s) < 2 \/ s[2] \notin {"n", "r", "\"", "\\"} THEN <<>>
         ELSE LET rest == jsonUnescape(Tail(Tail(s)))
                  ch == CASE s[2] = "n" -> NL
                          [] s[2] = "r" -> CR
                          [] OTHER -> s[2]
              IN  IF rest = <<>> THEN <<>> ELSE << << ch >> \o rest[1] >>
    ELSE LET rest == jsonUnescape(Tail(s))
         IN  IF rest = <<>> THEN <<>> ELSE << << Head(s) >> \o rest[1] >>

\* JSON.stringify(data, null, 2): every own key of every row, in place
JSONstringify(data) ==
    [k \in 1..Len(data) |-> [key \in DOMAIN data[k] |-> jsonEscape(data[k][key])]]

\* response.json() on a document: how the fetch of that document ends
responseJson(doc) ==
    IF \A k \in 1..Len(doc) : \A key \in DOMAIN doc[k] : jsonUnescape(doc[k][key]) # <<>>
    THEN [kind |-> "json",
          data |-> [k \in 1..Len(doc) |->
                       [key \in DOMAIN doc[k] |-> jsonUnescape(doc[k][key])[1]]]]
    ELSE [kind |-> "parseError", data |-> <<>>]

(***************************************************************************)
(* Private script: handlers                                                *)
(***************************************************************************)
\* initializePage up to its await: the page selector changed to page p
InitializePageFor(p) ==
    /\ variant = "private"
    /\ Len(pending) < MaxPending
    /\ pageType' = p
    /\ pending' = Append(pending, pageConfigs[p].dataFile)
    /\ lastEvent' = Event("initializePage", "none", "none", <<>>)
    /\ UNCHANGED << variant, initialized, currentData, columnHeaders, isEditMode,
                    selectedRowIndex, filterInputs, tableHead, tableRows,
                    credentialSinceExit, sessionOpen, typedCount, loadedFile, typedAt, fmtVars >>
    /\ onlyRowTrail' = "no"

InitializePage == \E p \in PageTypes : InitializePageFor(p)

\* initializePage after its await: one of the fetches in flight settles.  The
\* awaits inside loadDataFromFile touch no state of the page, so the fetch
\* and the parsing of the body are one step.
PrivateLoadOf(i, outcome) ==
    /\ variant = "private"
    /\ i \in 1..Len(pending)
    /\ outcome \in FetchOutcomes(pending[i])
    /\ LET loaded == loadDataFromFile(outcome)
           headers == pageConfigs[pageType].headers
       IN  /\ currentData' = loaded.data
           /\ columnHeaders' = headers
           /\ initialized' = TRUE
           /\ isEditMode' = FALSE
           /\ selectedRowIndex' = -1
           /\ filterInputs' = allEmptyInputs(headers)
           /\ tableHead' = headers
           /\ tableRows' = renderTableBody(Indices(loaded.data), loaded.data, headers, FALSE)
           /\ pending' = RemoveAt(pending, i)
           /\ lastEvent' = Event("load", loaded.alert, "none", <<>>)
    /\ typedCount' = 0
    \* history: a page load completed
    /\ sessionOpen' = FALSE
    /\ loadedFile' = pending[i]
    /\ UNCHANGED << variant, pageType, credentialSinceExit, fmtVars >>
    /\ typedAt' = <<>>
    /\ onlyRowTrail' = "no"

PrivateLoad ==
    \E i \in 1..Len(pending) : \E outcome \in FetchOutcomes(pending[i]) :
        PrivateLoadOf(i, outcome)

\* keyup in the filter box of column c, whose value is now s
\* the bug of filtering in place: currentData = currentData.filter(...)
FilterKeyupAtInPlace(c, s) ==
    /\ variant = "private"
    /\ c \in 1..Len(filterInputs)
    /\ filterInputs' = [filterInputs EXCEPT ![c] = s]
    /\ currentData' =
           [k \in 1..Len(filteredData(currentData, columnHeaders, filterInputs')) |->
               currentData[filteredData(currentData, columnHeaders, filterInputs')[k] + 1]]
    /\ tableRows' = renderTableBody(Indices(currentData'), currentData', columnHeaders,
                                    isEditMode)
    /\ lastEvent' = Event("filterTable", "none", "none", <<>>)
    /\ UNCHANGED << variant, pageType, initialized, columnHeaders, isEditMode,
                    selectedRowIndex, tableHead, pending, credentialSinceExit, sessionOpen,
                    typedCount, loadedFile, typedAt, fmtVars >>
    /\ onlyRowTrail' = "no"

FilterKeyupAt(c, s) ==
    /\ variant = "private"
    /\ c \in 1..Len(filterInputs)
    /\ filterInputs' = [filterInputs EXCEPT ![c] = s]
    /\ tableRows' = filterTable(currentData, columnHeaders, filterInputs', isEditMode)
    /\ lastEvent' = Event("filterTable", "none", "none", <<>>)
    /\ UNCHANGED << variant, pageType, initialized, currentData, columnHeaders, isEditMode,
                    selectedRowIndex, tableHead, pending, credentialSinceExit, sessionOpen,
                    typedCount, loadedFile, typedAt, fmtVars >>
    /\ onlyRowTrail' = "no"

FilterKeyup ==
    \E c \in 1..Len(filterInputs) : \E s \in FilterPool(columnHeaders[c]) :
        FilterKeyupAt(c, s)

\* F6 in view mode: the password prompt
\* history: the user supplied this text at the password prompt
CredentialSupplied(password) ==
    /\ credentialSinceExit' = (credentialSinceExit \/ password = << EDIT_PASSWORD >>)
    /\ sessionOpen' = (sessionOpen \/ password = << EDIT_PASSWORD >>)

\* the bug of accepting whatever was typed: password !== null
HandleF6PasswordAnyText(password) ==
    /\ variant = "private"
    /\ ~isEditMode
    /\ IF password # <<>>
       THEN /\ tableRows' = setContentEditable(tableRows, TRUE)
            /\ isEditMode' = TRUE
            /\ lastEvent' = Event("handleF6", "editEnabled", "none", <<>>)
       ELSE /\ lastEvent' = Event("handleF6", "none", "none", <<>>)
            /\ UNCHANGED << tableRows, isEditMode >>
    /\ CredentialSupplied(password)
    /\ UNCHANGED << variant, pageType, initialized, currentData, columnHeaders,
                    selectedRowIndex, filterInputs, tableHead, pending, typedCount,
                    loadedFile, typedAt, fmtVars >>
    /\ onlyRowTrail' = "no"

HandleF6PasswordWith(password) ==
    /\ variant = "private"
    /\ ~isEditMode
    /\ IF password = << EDIT_PASSWORD >>
       THEN /\ tableRows' = setContentEditable(tableRows, TRUE)
            /\ isEditMode' = TRUE
            /\ lastEvent' = Event("handleF6", "editEnabled", "none", <<>>)
       ELSE /\ lastEvent' = Event("handleF6",
                                  IF password # <<>> THEN "incorrectPassword" ELSE "none",
                                  "none", <<>>)
            /\ UNCHANGED << tableRows, isEditMode >>
    /\ CredentialSupplied(password)
    /\ UNCHANGED << variant, pageType, initialized, currentData, columnHeaders,
                    selectedRowIndex, filterInputs, tableHead, pending, typedCount,
                    loadedFile, typedAt, fmtVars >>
    /\ onlyRowTrail' = "no"

HandleF6Password == \E password \in PasswordPrompts : HandleF6PasswordWith(password)

\* F6 in edit mode: the add-rows prompt
HandleF6AddRowsWith(numRowsStr) ==
    /\ variant = "private"
    /\ isEditMode
    /\ LET numRows == IF numRowsStr = <<>> THEN <<>> ELSE parseInt(numRowsStr[1])
       IN  IF numRowsStr = <<>>
           THEN /\ lastEvent' = Event("handleF6", "none", "none", <<>>)
                /\ UNCHANGED << currentData, tableRows >>
           ELSE IF numRows = <<>> \/ numRows[1] < 1
           THEN /\ lastEvent' = Event("handleF6", "invalidNumber", "none", <<>>)
                /\ UNCHANGED << currentData, tableRows >>
           ELSE IF ~initialized
           THEN \* columnHeaders is undefined: columnHeaders.forEach throws
                /\ lastEvent' = Event("handleF6", "none", "TypeError", <<>>)
                /\ UNCHANGED << currentData, tableRows >>
           ELSE /\ Len(currentData) + numRows[1] <= MaxData
                /\ currentData' =
                       currentData \o [i \in 1..numRows[1] |-> newRow(columnHeaders)]
                /\ tableRows' = renderTableBody(Indices(currentData'), currentData',
                                                columnHeaders, isEditMode)
                /\ lastEvent' = Event("handleF6", "none", "none", <<>>)
    /\ UNCHANGED << variant, pageType, initialized, columnHeaders, isEditMode,
                    selectedRowIndex, filterInputs, tableHead, pending,
                    credentialSinceExit, sessionOpen, typedCount, loadedFile, typedAt, fmtVars >>
    \* history: rows were added right after F7 had removed the only row
    /\ onlyRowTrail' = IF onlyRowTrail = "deleted" /\ Len(currentData') > Len(currentData)
                       THEN "deletedThenAdded" ELSE "no"

HandleF6AddRows == \E numRowsStr \in RowCountPrompts : HandleF6AddRowsWith(numRowsStr)

\* Escape: save and exit
HandleEscape ==
    /\ variant = "private"
    /\ IF ~isEditMode
       THEN /\ lastEvent' = Event("handleEscape", "none", "none", <<>>)
            /\ UNCHANGED << currentData, tableRows, isEditMode >>
       ELSE IF ~initialized
       THEN \* currentData is undefined: currentData.map throws
            /\ tableRows' = setContentEditable(tableRows, FALSE)
            /\ lastEvent' = Event("handleEscape", "none", "TypeError", <<>>)
            /\ UNCHANGED << currentData, isEditMode >>
       ELSE LET updatedData ==
                    pruneEmptyRows(reconcile(currentData, tableRows, columnHeaders),
                                   columnHeaders)
            IN  /\ currentData' = updatedData
                /\ isEditMode' = FALSE
                /\ tableRows' = filterTable(updatedData, columnHeaders, filterInputs, FALSE)
                /\ lastEvent' =
                       Event("handleEscape", "downloadReady", "none",
                             << [name |-> pageConfigs[pageType].dataFile,
                                 content |-> JSONstringify(updatedData)] >>)
    \* history: the exit action was taken; it completed unless the handler threw
    /\ credentialSinceExit' = FALSE
    /\ sessionOpen' = (sessionOpen /\ ~(isEditMode /\ lastEvent'.error = "none"))
    /\ UNCHANGED << variant, pageType, initialized, columnHeaders, selectedRowIndex,
                    filterInputs, tableHead, pending, typedCount, loadedFile, fmtVars >>
    \* history: the edit session is over
    /\ typedAt' = <<>>
    /\ onlyRowTrail' = "no"

\* history: the typed cell after the record at index start was removed
typedAfterDelete(typed, start) ==
    IF typed = <<>> THEN typed
    ELSE IF typed[1].index = start THEN <<>>
    ELSE IF typed[1].index > start THEN << [typed[1] EXCEPT !.index = @ - 1] >>
    ELSE typed

\* the bug of deleting without looking at the mode: no return in View mode
HandleF7Unguarded ==
    /\ variant = "private"
    /\ IF selectedRowIndex > -1
       THEN /\ currentData' = spliceOne(currentData, selectedRowIndex)
            /\ selectedRowIndex' = -1
            /\ tableRows' = filterTable(currentData', columnHeaders, filterInputs, isEditMode)
            /\ lastEvent' = Event("handleF7", "none", "none", <<>>)
       ELSE /\ lastEvent' = Event("handleF7", "noRowSelected", "none", <<>>)
            /\ UNCHANGED << currentData, selectedRowIndex, tableRows >>
    /\ UNCHANGED << variant, pageType, initialized, columnHeaders, isEditMode,
                    filterInputs, tableHead, pending, credentialSinceExit, sessionOpen,
                    typedCount, loadedFile, onlyRowTrail, typedAt, fmtVars >>

\* the bug of deleting without rendering the table again
HandleF7NoRender ==
    /\ variant = "private"
    /\ IF ~isEditMode
       THEN /\ lastEvent' = Event("handleF7", "none", "none", <<>>)
            /\ UNCHANGED << currentData, selectedRowIndex, tableRows >>
       ELSE IF selectedRowIndex > -1
       THEN /\ currentData' = spliceOne(currentData, selectedRowIndex)
            /\ selectedRowIndex' = -1
            /\ lastEvent' = Event("handleF7", "none", "none", <<>>)
            /\ UNCHANGED tableRows
       ELSE /\ lastEvent' = Event("handleF7", "noRowSelected", "none", <<>>)
            /\ UNCHANGED << currentData, selectedRowIndex, tableRows >>
    /\ UNCHANGED << variant, pageType, initialized, columnHeaders, isEditMode,
                    filterInputs, tableHead, pending, credentialSinceExit, sessionOpen,
                    typedCount, loadedFile, fmtVars >>
    \* history: where the typed cell's record is now; whether the only row was removed
    /\ typedAt' = IF isEditMode /\ selectedRowIndex > -1
                  THEN typedAfterDelete(typedAt, selectedRowIndex) ELSE typedAt
    /\ onlyRowTrail' = IF isEditMode /\ selectedRowIndex = 0 /\ Len(currentData) = 1
                       THEN "deleted" ELSE "no"

\* F7: delete the selected row
HandleF7 ==
    /\ variant = "private"
    /\ IF ~isEditMode
       THEN /\ lastEvent' = Event("handleF7", "none", "none", <<>>)
            /\ UNCHANGED << currentData, selectedRowIndex, tableRows >>
       ELSE IF selectedRowIndex > -1
       THEN /\ currentData' = spliceOne(currentData, selectedRowIndex)
            /\ selectedRowIndex' = -1
            /\ tableRows' = filterTable(currentData', columnHeaders, filterInputs, isEditMode)
            /\ lastEvent' = Event("handleF7", "none", "none", <<>>)
       ELSE /\ lastEvent' = Event("handleF7", "noRowSelected", "none", <<>>)
            /\ UNCHANGED << currentData, selectedRowIndex, tableRows >>
    /\ UNCHANGED << variant, pageType, initialized, columnHeaders, isEditMode,
                    filterInputs, tableHead, pending, credentialSinceExit, sessionOpen,
                    typedCount, loadedFile, fmtVars >>
    \* history: where the typed cell's record is now; whether the only row was removed
    /\ typedAt' = IF isEditMode /\ selectedRowIndex > -1
                  THEN typedAfterDelete(typedAt, selectedRowIndex) ELSE typedAt
    /\ onlyRowTrail' = IF isEditMode /\ selectedRowIndex = 0 /\ Len(currentData) = 1
                       THEN "deleted" ELSE "no"

\* click on the r-th row of the table body
RowClickAt(r) ==
    /\ variant = "private"
    /\ r \in 1..Len(tableRows)
    /\ IF isEditMode
       THEN selectedRowIndex' = tableRows[r].originalIndex
       ELSE UNCHANGED selectedRowIndex
    /\ lastEvent' = Event("rowClick", "none", "none", <<>>)
    /\ UNCHANGED << variant, pageType, initialized, currentData, columnHeaders, isEditMode,
                    filterInputs, tableHead, tableRows, pending, credentialSinceExit,
                    sessionOpen, typedCount, loadedFile, typedAt, fmtVars >>
    /\ onlyRowTrail' = "no"

RowClick == \E r \in 1..Len(tableRows) : RowClickAt(r)

\* the user replaces the text of an editable cell
TypeCellAt(r, c, t) ==
    /\ variant = "private"
    /\ r \in 1..Len(tableRows)
    /\ c \in 1..Len(tableRows[r].cells)
    /\ tableRows[r].cells[c].editable
    /\ tableRows' = [tableRows EXCEPT ![r].cells[c].text = t]
    /\ typedCount < MaxTyped
    /\ typedCount' = typedCount + 1
    /\ UNCHANGED << variant, pageType, initialized, currentData, columnHeaders, isEditMode,
                    selectedRowIndex, filterInputs, tableHead, pending, lastEvent,
                    credentialSinceExit, sessionOpen, loadedFile, fmtVars >>
    \* history: the cell typed into, by the record it belongs to
    /\ typedAt' = << [index |-> tableRows[r].originalIndex, column |-> c, text |-> t] >>
    /\ onlyRowTrail' = "no"

TypeCell ==
    \E r \in 1..Len(tableRows) : \E c \in 1..Len(columnHeaders) : \E t \in TextPool :
        TypeCellAt(r, c, t)

\* a page is selected while no fetch is in flight
SelectPage == pending = <<>> /\ InitializePage

\* Both scripts, every handler, one fetch in flight at a time; the text of
\* the cells is left as rendered.
Next ==
    \/ PublicLoad
    \/ PublicFilterKeyup
    \/ SelectPage
    \/ PrivateLoad
    \/ FilterKeyup
    \/ HandleF6Password
    \/ HandleF6AddRows
    \/ HandleEscape
    \/ HandleF7
    \/ RowClick

Spec == Init /\ [][Next]_vars

\* The editor on the page it was opened with: every handler and typing into
\* the cells, no further page selection.
InitEdit == Init /\ variant = "private"

NextEdit ==
    \/ PrivateLoad
    \/ FilterKeyup
    \/ HandleF6Password
    \/ HandleF6AddRows
    \/ HandleEscape
    \/ HandleF7
    \/ RowClick
    \/ TypeCell

EditSpec == InitEdit /\ [][NextEdit]_vars

\* Page selections of the administrative script that overlap: a page is
\* selected while fetches are in flight, and the fetches settle in any order.
InitRace == Init /\ variant = "private"

NextRace ==
    \/ InitializePage
    \/ PrivateLoad

RaceSpec == InitRace /\ [][NextRace]_vars

(***************************************************************************)
(* formatCellContent on its own                                            *)
(***************************************************************************)
\* a cell is about to be filled with a value
PickValue ==
    /\ fmtResult = <<>>
    /\ fmtValue' \in FormatInputs
    /\ fmtResult' = << formatCellContent(fmtValue') >>
    /\ UNCHANGED pageVars

\* the next cell
NextCell ==
    /\ fmtResult # <<>>
    /\ fmtValue' = <<>>
    /\ fmtResult' = <<>>
    /\ UNCHANGED pageVars

InitFormatSpec == InitFormat /\ InitPage /\ variant = "public" /\ pageType = "home"

FormatSpec == InitFormatSpec /\ [][PickValue \/ NextCell]_vars

(***************************************************************************)
(* Notions of the specification, stated on characters and positions        *)
(***************************************************************************)
\* p occurs in s as a contiguous run of characters
IsSubstringOf(p, s) ==
    \E start \in 0..(Len(s) - Len(p)) : \A j \in 1..Len(p) : s[start + j] = p[j]

\* the cell value of a column: the value under the key, the empty string for a missing key
CellOrEmpty(row, header) == IF header \in DOMAIN row THEN row[header] ELSE <<>>

\* the row passes the filter strings: in every configured column the
\* lower-cased filter string is a substring of the lower-cased cell value
PassesFilters(row, headers, filters) ==
    \A c \in 1..Len(headers) :
        IsSubstringOf(toLowerCase(filters[c]), toLowerCase(CellOrEmpty(row, headers[c])))

\* the tracked original indices of the displayed rows, in display order
DisplayedIndices == [k \in 1..Len(tableRows) |-> tableRows[k].originalIndex]

StrictlyIncreasing(seq) == \A k \in 1..Len(seq) : \A l \in 1..Len(seq) : k < l => seq[k] < seq[l]

FilterTableRan == initialized /\ lastEvent.op = "filterTable"

SomeRowMissesAKey ==
    \E i \in 1..Len(currentData) : \E c \in 1..Len(columnHeaders) :
        columnHeaders[c] \notin DOMAIN currentData[i]

(***************************************************************************)
(* C1: after filterTable the displayed rows are exactly the rows of the    *)
(* Dataset that pass the filter strings in every configured column (a      *)
(* missing key counting as the empty string), in Dataset order.            *)
(***************************************************************************)
C1_FilterShowsExactlyMatchingRows ==
    FilterTableRan =>
        /\ StrictlyIncreasing(DisplayedIndices)
        /\ Range(DisplayedIndices) =
               { i \in 0..(Len(currentData) - 1) :
                   PassesFilters(currentData[i + 1], columnHeaders, filterInputs) }

(***************************************************************************)
(* C2: after filterTable with every filter string empty, every row of the  *)
(* Dataset is displayed, in the order of the Dataset.                      *)
(***************************************************************************)
C2_EmptyFiltersShowAll ==
    (FilterTableRan /\ \A c \in 1..Len(filterInputs) : filterInputs[c] = <<>>)
        => DisplayedIndices = Indices(currentData)

C2_Witness ==
    /\ FilterTableRan
    /\ \A c \in 1..Len(filterInputs) : filterInputs[c] = <<>>
    /\ Len(currentData) = 2
    /\ SomeRowMissesAKey
    /\ DisplayedIndices = << 0, 1 >>

(***************************************************************************)
(* C3: when a filter change lengthens one filter string (the old string is *)
(* a substring of the new one) and keeps the others, the rows displayed    *)
(* afterwards are among the rows that passed the old filter strings.       *)
(***************************************************************************)
Tightens(old, new) ==
    /\ Len(old) = Len(new)
    /\ \E c \in 1..Len(old) :
          /\ IsSubstringOf(old[c], new[c])
          /\ Len(old[c]) < Len(new[c])
          /\ \A d \in 1..Len(old) : d # c => old[d] = new[d]

\* the display shows the filter result: a filter change or a page load ran last
ShowsFilterResult == initialized /\ lastEvent.op \in {"filterTable", "load"}

C3_FilterMonotone ==
    [][(ShowsFilterResult /\ lastEvent'.op = "filterTable" /\ Tightens(filterInputs, filterInputs'))
          => Range(DisplayedIndices') \subseteq Range(DisplayedIndices)]_vars

\* the longer string hides a row that the shorter string showed
C3_Witness ==
    /\ FilterTableRan
    /\ \E c \in 1..Len(filterInputs) :
          /\ filterInputs[c] = << "I", "b", "m", "2" >>
          /\ Len(tableRows) = 1
          /\ Len(filteredData(currentData, columnHeaders,
                               [filterInputs EXCEPT ![c] = << "I", "b" >>])) = 2

(***************************************************************************)
(* C4: a filter change leaves the Dataset as it was: the same rows, in the *)
(* same order, with the same values; in the public script every event      *)
(* after the load leaves it so.                                            *)
(***************************************************************************)
C4_FilterKeepsDataset ==
    [][/\ lastEvent'.op = "filterTable" => currentData' = currentData
       /\ (variant = "public" /\ initialized) => currentData' = currentData]_vars

C4_Witness ==
    /\ FilterTableRan
    /\ Len(currentData) = 2
    /\ Len(tableRows) = 1

FailedOutcomes ==
    { [kind |-> k, data |-> <<>>] : k \in {"networkError", "badStatus", "parseError"} }

LoadFails ==
    \E outcome \in FailedOutcomes :
        \/ PublicLoadOf(outcome)
        \/ \E i \in 1..Len(pending) : PrivateLoadOf(i, outcome)

C6_LoadFailureDegrades ==
    [][LoadFails =>
          /\ lastEvent'.alert = "loadFailed"
          /\ lastEvent'.error = "none"
          /\ currentData' = <<>>
          /\ tableHead' = pageConfigs[pageType'].headers
          /\ Len(filterInputs') = Len(tableHead')
          /\ tableRows' = <<>>]_vars

C6_Witness ==
    /\ lastEvent.op = "load"
    /\ lastEvent.alert = "loadFailed"
    /\ initialized
    /\ currentData = <<>>
    /\ tableHead = pageConfigs[pageType].headers
    /\ tableRows = <<>>

(***************************************************************************)
(* C7: the category of a cell follows from the value alone, in priority    *)
(* order: link for a value that begins with http:// or https://, else      *)
(* multi-line block for a value that holds a newline and //, else plain.   *)
(***************************************************************************)
BeginsWith(value, prefix) ==
    Len(value) >= Len(prefix) /\ \A j \in 1..Len(prefix) : value[j] = prefix[j]

CategoryOf(value) ==
    IF BeginsWith(value, HttpPrefix) \/ BeginsWith(value, HttpsPrefix) THEN "link"
    ELSE IF (\E i \in 1..Len(value) : value[i] = NL)
            /\ (\E i \in 1..(Len(value) - 1) : value[i] = "/" /\ value[i + 1] = "/")
    THEN "pre"
    ELSE "plain"

C7_ClassificationByPriority ==
    fmtResult # <<>> => fmtResult[1].cat = CategoryOf(fmtValue)

\* a link that also holds a newline and //
C7_Witness ==
    /\ fmtResult # <<>>
    /\ BeginsWith(fmtValue, HttpPrefix)
    /\ \E i \in 1..Len(fmtValue) : fmtValue[i] = NL
    /\ fmtResult[1].cat = "link"

(***************************************************************************)
(* C8: the text of a multi-line block is the value's lines, in order,      *)
(* without the lines whose trimmed form starts with "// ", joined with     *)
(* newlines; blank lines and lines holding only // are kept.               *)
(***************************************************************************)
\* the lines of a value: it is cut at every line break (\r\n, \n or \r)
RECURSIVE LinesOf(_)
LinesOf(value) ==
    IF \A i \in 1..Len(value) : ~IsLineBreak(value[i])
    THEN << value >>
    ELSE LET i == CHOOSE k \in 1..Len(value) :
                      IsLineBreak(value[k]) /\ \A m \in 1..(k - 1) : ~IsLineBreak(value[m])
             crlf == value[i] = CR /\ i < Len(value) /\ value[i + 1] = NL
             rest == SubSeq(value, IF crlf THEN i + 2 ELSE i + 1, Len(value))
         IN  << SubSeq(value, 1, i - 1) >> \o LinesOf(rest)

TextWithoutCommentLines(value) ==
    joinLines(SelectSeq(LinesOf(value),
                        LAMBDA line : ~BeginsWith(trim(line), CommentPrefix)))

C8_MultiLineKeepsOtherLines ==
    (fmtResult # <<>> /\ fmtResult[1].cat = "pre")
        => fmtResult[1].text = TextWithoutCommentLines(fmtValue)

(***************************************************************************)
(* C9 as stated: the mode is Edit if and only if the correct credential    *)
(* was supplied and no exit action has happened since.                     *)
(***************************************************************************)
C9_EditIffCredentialSinceExit == isEditMode <=> credentialSinceExit

(***************************************************************************)
(* C9 as amended: the mode is Edit if and only if the correct credential   *)
(* was supplied and neither a completed exit action nor a completed page   *)
(* load has happened since; so View becomes Edit only when the correct     *)
(* credential is supplied, and Edit becomes View only when an exit action  *)
(* or a page load completes.                                               *)
(***************************************************************************)
C9_EditIffSessionOpen == isEditMode <=> sessionOpen

\* a page load has put an authorised editor back into View
C9_Witness ==
    /\ credentialSinceExit
    /\ ~isEditMode
    /\ lastEvent.op = "load"

(***************************************************************************)
(* C10: a wrong credential leaves the mode at View and is reported; on a  *)
(* loaded page an add-rows count that is not a positive integer leaves    *)
(* the Dataset unchanged and is reported.                                  *)
(***************************************************************************)
\* the text, white space aside, is a run of digits that denotes a number >= 1
IsPositiveIntegerText(text) ==
    LET t == trim(text)
    IN  /\ t # <<>>
        /\ \A i \in 1..Len(t) : IsDigit(t[i])
        /\ \E i \in 1..Len(t) : t[i] # "0"

C10_InvalidInputChangesNothing ==
    [][/\ \A password \in PasswordPrompts :
             (password # <<>> /\ password # << EDIT_PASSWORD >>
                 /\ HandleF6PasswordWith(password))
                 => (~isEditMode' /\ lastEvent'.alert = "incorrectPassword")
       /\ \A numRowsStr \in RowCountPrompts :
             (initialized /\ numRowsStr # <<>> /\ ~IsPositiveIntegerText(numRowsStr[1])
                 /\ HandleF6AddRowsWith(numRowsStr))
                 => (currentData' = currentData /\ lastEvent'.alert = "invalidNumber")]_vars

(***************************************************************************)
(* C11: in Edit mode an add-rows action with a valid count N appends       *)
(* exactly N rows to the end of the Dataset, each with every configured    *)
(* column present and empty; the rows that existed before keep their       *)
(* positions and values.                                                   *)
(***************************************************************************)
\* the number a valid count denotes
CountOf(text) == decimalValue(trim(text), 0)

\* the row has exactly the configured columns, each the empty string
IsFreshRow(row, headers) ==
    /\ DOMAIN row = Range(headers)
    /\ \A header \in DOMAIN row : row[header] = <<>>

AppendedFreshRows(old, new, n, headers) ==
    /\ Len(new) = Len(old) + n
    /\ \A k \in 1..Len(old) : new[k] = old[k]
    /\ \A k \in (Len(old) + 1)..Len(new) : IsFreshRow(new[k], headers)

C11_AddRowsAppendsEmptyRows ==
    [][\A numRowsStr \in RowCountPrompts :
          (numRowsStr # <<>> /\ IsPositiveIntegerText(numRowsStr[1])
              /\ HandleF6AddRowsWith(numRowsStr))
              => AppendedFreshRows(currentData, currentData', CountOf(numRowsStr[1]),
                                   columnHeaders)]_vars

(***************************************************************************)
(* C12: in Edit mode a delete action with a current selection removes      *)
(* exactly the selected record (the Dataset shrinks by one, the other rows *)
(* keep their relative order and values) and clears the selection; with no *)
(* selection the Dataset is unchanged and the user is informed.  The       *)
(* selected record is the one at the index tracked by the row clicked.     *)
(***************************************************************************)
\* new is old without its record at index i (counted from 0)
RemovedExactly(old, new, i) ==
    /\ i \in 0..(Len(old) - 1)
    /\ Len(new) = Len(old) - 1
    /\ \A k \in 1..Len(new) : new[k] = old[IF k <= i THEN k ELSE k + 1]

C12_DeleteRemovesSelected ==
    [][(isEditMode /\ HandleF7)
          => IF selectedRowIndex > -1
             THEN /\ RemovedExactly(currentData, currentData', selectedRowIndex)
                  /\ selectedRowIndex' = -1
             ELSE /\ currentData' = currentData
                  /\ lastEvent'.alert = "noRowSelected"]_vars

(***************************************************************************)
(* C13: on every entry into Edit mode no row is selected, so that a delete *)
(* action issued before any click removes nothing.                         *)
(***************************************************************************)
C13_NoSelectionOnEntry ==
    [][(~isEditMode /\ isEditMode') => selectedRowIndex' = -1]_vars

(***************************************************************************)
(* C14: on exit-and-save every displayed row has its record at its tracked *)
(* original index replaced by the text shown in its cells, every row not   *)
(* displayed keeps its prior values, and a displayed row changes no other  *)
(* record; blank rows are then dropped.                                    *)
(***************************************************************************)
\* the exit action runs to its end: Escape in Edit mode on a loaded page
ExitAndSave == isEditMode /\ initialized /\ HandleEscape

\* the text shown in the cell of a displayed row under a column
ShownText(tr, headers, header) ==
    tr.cells[CHOOSE c \in 1..Len(headers) : headers[c] = header].text

IsDisplayed(rows, index) == \E r \in 1..Len(rows) : rows[r].originalIndex = index

RowShowing(rows, index) == rows[CHOOSE r \in 1..Len(rows) : rows[r].originalIndex = index]

\* the row is blank in every configured column
IsBlankRow(row, headers) ==
    \A c \in 1..Len(headers) : trim(CellOrEmpty(row, headers[c])) = <<>>

WithoutBlankRows(data, headers) == SelectSeq(data, LAMBDA row : ~IsBlankRow(row, headers))

\* displayed rows become the text shown, rows not displayed stay
ReconciledAsShown(master, rows, headers) ==
    [k \in 1..Len(master) |->
        IF IsDisplayed(rows, k - 1)
        THEN [header \in Range(headers) |-> ShownText(RowShowing(rows, k - 1), headers, header)]
        ELSE master[k]]

C14_DisplayedRowsTakeShownText ==
    [][ExitAndSave
          => currentData' =
                 WithoutBlankRows(ReconciledAsShown(currentData, tableRows, columnHeaders),
                                  columnHeaders)]_vars

(***************************************************************************)
(* C14 as amended: the record of a displayed row is replaced by the text   *)
(* shown in its cells with the white space at both ends of each cell       *)
(* removed; rows not displayed keep their prior values, and a displayed    *)
(* row changes no record but the one at its tracked index.                 *)
(***************************************************************************)
ReconciledTrimmed(master, rows, headers) ==
    [k \in 1..Len(master) |->
        IF IsDisplayed(rows, k - 1)
        THEN [header \in Range(headers) |->
                 trim(ShownText(RowShowing(rows, k - 1), headers, header))]
        ELSE master[k]]

C14_DisplayedRowsTakeTrimmedText ==
    [][ExitAndSave
          => currentData' =
                 WithoutBlankRows(ReconciledTrimmed(currentData, tableRows, columnHeaders),
                                  columnHeaders)]_vars

\* typed text with blanks around it was saved while another row was hidden
C14_Witness ==
    /\ lastEvent.op = "handleEscape"
    /\ lastEvent.download # <<>>
    /\ \E k \in 1..Len(currentData) : \E header \in DOMAIN currentData[k] :
          currentData[k][header] = << "q" >>
    /\ Len(tableRows) < Len(currentData)

(***************************************************************************)
(* C15: after every exit-and-save the Dataset has no row that is empty in  *)
(* all configured columns, and every row that was non-empty in at least    *)
(* one configured column after reconciliation is still there, in the same  *)
(* relative order.                                                         *)
(***************************************************************************)
\* the row is the empty string in every configured column
IsEmptyInAllColumns(row, headers) ==
    \A c \in 1..Len(headers) : CellOrEmpty(row, headers[c]) = <<>>

C15_OnlyEmptyRowsDropped ==
    [][ExitAndSave
          => /\ \A k \in 1..Len(currentData') :
                   ~IsEmptyInAllColumns(currentData'[k], columnHeaders)
             /\ currentData' =
                    SelectSeq(reconcile(currentData, tableRows, columnHeaders),
                              LAMBDA row : ~IsEmptyInAllColumns(row, columnHeaders))]_vars

(***************************************************************************)
(* C15 as amended: after every exit-and-save the Dataset has no row that   *)
(* is empty or white space only in all configured columns, and every row   *)
(* that had other text in at least one configured column after             *)
(* reconciliation is still there, in the same relative order.              *)
(***************************************************************************)
C15_OnlyBlankRowsDropped ==
    [][ExitAndSave
          => /\ \A k \in 1..Len(currentData') : ~IsBlankRow(currentData'[k], columnHeaders)
             /\ currentData' =
                    WithoutBlankRows(reconcile(currentData, tableRows, columnHeaders),
                                     columnHeaders)]_vars

\* an exit has dropped the row that was clicked and kept another one
C15_Witness ==
    /\ lastEvent.op = "handleEscape"
    /\ lastEvent.download # <<>>
    /\ currentData # <<>>
    /\ selectedRowIndex >= Len(currentData)

(***************************************************************************)
(* C16: every exit-and-save offers exactly one download; its content is    *)
(* the reconciled and pruned Dataset, and its file name is the resource    *)
(* name of the page configuration the Dataset was loaded from, also when a *)
(* page was selected and its fetch has not completed.                      *)
(***************************************************************************)
C16_DownloadNamedAfterLoadedResource ==
    [][ExitAndSave
          => /\ Len(lastEvent'.download) = 1
             /\ lastEvent'.download[1].content = JSONstringify(currentData')
             /\ lastEvent'.download[1].name = loadedFile]_vars

(***************************************************************************)
(* C17: every object of the exported document has exactly the configured   *)
(* column names as its keys, for displayed rows and for rows hidden by a   *)
(* filter at the moment of exit alike.                                     *)
(***************************************************************************)
C17_ExportHasConfiguredKeys ==
    [][ExitAndSave
          => \A d \in 1..Len(lastEvent'.download) :
                 \A k \in 1..Len(lastEvent'.download[d].content) :
                     DOMAIN lastEvent'.download[d].content[k] = Range(columnHeaders)]_vars

(***************************************************************************)
(* C18: round trip.  Loading the document exported by exit-and-save yields *)
(* a Dataset equal, row for row and configured column for configured       *)
(* column, to the Dataset held in memory after that exit-and-save.         *)
(***************************************************************************)
\* an exit-and-save ran last: the state is the one it left
ExitedAndSaved == lastEvent.op = "handleEscape" /\ lastEvent.download # <<>>

\* the two Datasets agree in length and, row by row, in every configured column
SameInConfiguredColumns(a, b, headers) ==
    /\ Len(a) = Len(b)
    /\ \A k \in 1..Len(a) : \A c \in 1..Len(headers) :
          /\ (headers[c] \in DOMAIN a[k]) = (headers[c] \in DOMAIN b[k])
          /\ headers[c] \in DOMAIN a[k] => a[k][headers[c]] = b[k][headers[c]]

C18_ExportReloadsEqual ==
    ExitedAndSaved
        => LET loaded == loadDataFromFile(responseJson(lastEvent.download[1].content))
           IN  /\ loaded.alert = "none"
               /\ SameInConfiguredColumns(loaded.data, currentData, columnHeaders)

\* the exported Dataset has a value with a line break in it
C18_Witness ==
    /\ ExitedAndSaved
    /\ \E k \in 1..Len(currentData) : \E header \in DOMAIN currentData[k] :
          \E j \in 1..Len(currentData[k][header]) : currentData[k][header][j] = NL

(***************************************************************************)
(* C19: index consistency.  In every reachable state each rendered row's   *)
(* tracked original index is a position of the Dataset, and the row was    *)
(* rendered from the record now at that position: each cell shows the      *)
(* record's value of its column, as it is or as formatted for viewing.     *)
(***************************************************************************)
ShowsRecord(tr, record, headers) ==
    /\ Len(tr.cells) = Len(headers)
    /\ \A c \in 1..Len(headers) :
          LET value == CellOrEmpty(record, headers[c])
          IN  tr.cells[c].text \in { value, formatCellContent(value).text }

C19_IndexConsistency ==
    \A r \in 1..Len(tableRows) :
        /\ tableRows[r].originalIndex \in 0..(Len(currentData) - 1)
        /\ ShowsRecord(tableRows[r], currentData[tableRows[r].originalIndex + 1],
                       columnHeaders)

\* after an exit-and-save under a filter, the row shown first is not the first record
C19_Witness ==
    /\ ExitedAndSaved
    /\ tableRows # <<>>
    /\ tableRows[1].originalIndex = 1

(***************************************************************************)
(* C20: no other operation overlaps a data fetch.  From the start of a     *)
(* fetch until its result is installed and rendered, no user-action        *)
(* handler (enter edit, add rows, delete, exit-and-save, filter, page      *)
(* selection) runs.                                                        *)
(***************************************************************************)
UserHandlerOps == { "handleF6", "handleF7", "handleEscape", "filterTable", "initializePage" }

C20_NoHandlerDuringFetch ==
    [][pending # <<>> => lastEvent'.op \notin UserHandlerOps]_vars

(***************************************************************************)
(* C21: the Dataset is changed only by a page load or by the editor in     *)
(* Edit mode.  In View mode F6 (which asks for the credential and adds no  *)
(* rows), F7 and Escape leave the Dataset and the selection unchanged and  *)
(* offer no download; F7 and Escape leave the mode unchanged too.          *)
(***************************************************************************)
C21_ViewModeLeavesDataset ==
    [][/\ (~isEditMode /\ (HandleF7 \/ HandleEscape))
             => /\ currentData' = currentData
                /\ isEditMode' = isEditMode
                /\ selectedRowIndex' = selectedRowIndex
                /\ lastEvent'.download = <<>>
       /\ (~isEditMode /\ HandleF6Password)
             => /\ currentData' = currentData
                /\ selectedRowIndex' = selectedRowIndex
                /\ lastEvent'.download = <<>>
       /\ currentData' # currentData => (isEditMode \/ lastEvent'.op = "load")]_vars

\* F7 was pressed in View mode while a row of an earlier session was still selected
C21_Witness ==
    /\ lastEvent.op = "handleF7"
    /\ ~isEditMode
    /\ selectedRowIndex > -1
    /\ selectedRowIndex < Len(currentData)

(***************************************************************************)
(* C22: for the same page configuration, Dataset and filter strings the    *)
(* administrative script in View mode displays what the public script      *)
(* displays: the same rows in the same order, each cell with the same      *)
(* rendering category and text.                                            *)
(***************************************************************************)
\* what a table body shows: per row its record's index and per cell category and text
Shown(rows) ==
    [r \in 1..Len(rows) |->
        [originalIndex |-> rows[r].originalIndex,
         cells |-> [c \in 1..Len(rows[r].cells) |->
                      [cat |-> rows[r].cells[c].cat, text |-> rows[r].cells[c].text]]]]

C22_ViewModeShowsWhatPublicShows ==
    (variant = "private" /\ initialized /\ ~isEditMode)
        => /\ tableHead = columnHeaders
           /\ Shown(tableRows)
                  = Shown(filterTablePublic(currentData, columnHeaders, filterInputs))

\* the administrative script in View mode, under a filter, shows a link or a multi-line cell
C22_Witness ==
    /\ variant = "private"
    /\ initialized
    /\ ~isEditMode
    /\ \E c \in 1..Len(filterInputs) : filterInputs[c] # <<>>
    /\ \E r \in 1..Len(tableRows) : \E c \in 1..Len(tableRows[r].cells) :
          tableRows[r].cells[c].cat # "plain"

(***************************************************************************)
(* C23: from a Dataset of exactly one row, selecting and deleting that row *)
(* and then adding 1 row gives a Dataset of exactly one row, in which      *)
(* every configured column is present and empty.                           *)
(***************************************************************************)
C23_DeleteOnlyRowThenAddOne ==
    [][(onlyRowTrail = "deleted" /\ HandleF6AddRowsWith(<< << "1" >> >>))
          => /\ Len(currentData') = 1
             /\ IsFreshRow(currentData'[1], columnHeaders)]_vars

\* the only row was deleted and one row was added next
C23_Witness ==
    /\ onlyRowTrail = "deletedThenAdded"
    /\ Len(currentData) = 1

(***************************************************************************)
(* C24: entering Edit mode and exiting at once, without typing into any    *)
(* cell, leaves the value of every record in every configured column as    *)
(* it was, apart from the removal of blank rows; links and multi-line      *)
(* values with comment lines included.                                     *)
(***************************************************************************)
\* Edit mode was entered by the handler that ran last
JustEnteredEdit == isEditMode /\ lastEvent.op = "handleF6" /\ lastEvent.alert = "editEnabled"

\* the two Datasets have the same cell values, row by row, in the configured columns
SameCellValues(a, b, headers) ==
    /\ Len(a) = Len(b)
    /\ \A k \in 1..Len(a) : \A c \in 1..Len(headers) :
          CellOrEmpty(a[k], headers[c]) = CellOrEmpty(b[k], headers[c])

C24_EnterAndExitKeepsValues ==
    [][(JustEnteredEdit /\ ExitAndSave)
          => SameCellValues(currentData', WithoutBlankRows(currentData, columnHeaders),
                            columnHeaders)]_vars

(***************************************************************************)
(* C25: text typed into a cell during an edit session is not lost by later *)
(* actions of the session: if the row was not deleted and is displayed at  *)
(* exit, its record holds the typed text (white space at its ends aside)   *)
(* after exit-and-save, whatever add-rows, delete or filter actions came   *)
(* in between.                                                             *)
(***************************************************************************)
C25_TypedTextSurvives ==
    [][(ExitAndSave /\ typedAt # <<>> /\ IsDisplayed(tableRows, typedAt[1].index))
          => \E k \in 1..Len(currentData') :
                 CellOrEmpty(currentData'[k], columnHeaders[typedAt[1].column])
                     = trim(typedAt[1].text)]_vars

(***************************************************************************)
(* C26: after every handler the displayed rows, in their order, are the    *)
(* result of applying the current filter strings to the Dataset; also      *)
(* after an add-rows action taken while a filter string is non-empty.      *)
(***************************************************************************)
C26_DisplayIsFilterResult ==
    initialized => DisplayedIndices = filteredData(currentData, columnHeaders, filterInputs)

(***************************************************************************)
(* C27: once all outstanding fetches have completed, the column headers,   *)
(* the displayed Dataset and the export file name all belong to the page   *)
(* configuration selected last, in whatever order the fetches of two       *)
(* overlapping page selections complete.                                   *)
(***************************************************************************)
\* the file name an exit-and-save would give its download
ExportFileName == pageConfigs[pageType].dataFile

C27_LastSelectionWins ==
    (initialized /\ pending = <<>>)
        => /\ columnHeaders = pageConfigs[pageType].headers
           /\ tableHead = pageConfigs[pageType].headers
           /\ loadedFile = pageConfigs[pageType].dataFile
           /\ ExportFileName = pageConfigs[pageType].dataFile

====
